---- MODULE Spec2Model ----
(***************************************************************************)
(* Offline-first synchronisation layer of the library POS frontend.        *)
(*                                                                         *)
(* Two variants of the layer live side by side in the repository:          *)
(*   "services": services/offlineDB.js (raw IndexedDB),                    *)
(*               services/syncManager.js and services/offlineAPI.js;       *)
(*   "utils"   : utils/db.js (Dexie helpers), utils/syncManager.js and     *)
(*               services/offlineApi.js.                                   *)
(* A behaviour runs one of them; the variable variant says which.          *)
(*                                                                         *)
(* JavaScript runs one callback at a time.  A step of a syncAll run is the *)
(* completion of one awaited operation (a remote call, a Local Store       *)
(* request) together with the synchronous code that follows it up to the   *)
(* next await.  A facade call is one step: its awaited operations happen   *)
(* in the order of the code, each with its own outcome, and the steps of   *)
(* syncAll interleave between facade calls.  Remote calls and Local Store  *)
(* writes may fail; Local Store reads do not.                              *)
(*                                                                         *)
(* Date.now() and new Date().toISOString() read the same millisecond       *)
(* clock; both are modelled by the reading itself, since ISO strings of    *)
(* four-digit years order as the readings do.                              *)
(***************************************************************************)
EXTENDS Integers, Sequences, FiniteSets, TLC

\* Bounds of the model.
MaxOps == 2       \* facade calls in one behaviour of SpecQueue and SpecOrder
MaxCalls == 1     \* facade calls in one behaviour of Spec
MaxClock == 1     \* readings of the clock run over 0..MaxClock
MaxRuns == 2      \* syncAll invocations the model can hold in flight
MaxSrvId == 3     \* the server refuses creates once it has assigned this id
MaxReads == 2
MaxReqs == 2
MaxListeners == 2     \* getAll calls in one behaviour of SpecRead

Stores == {"books", "publishers", "transactions"}
\* The data a facade call submits.
Data == {"b"}
NoData == "-"
NoId == <<"n", 0>>
NoTime == -1

\* A server-assigned integer id.
SrvId(n) == <<"s", n>>
\* The string `temp_${Date.now()}` of the services facade.
TempId(t) == <<"t", t>>

\* Date.now() counts milliseconds since 1970: the readings of the clock lie
\* this far above the ids the server assigns.
Epoch == 1000

\* An id taken from a counter that starts where the server's ids start.
CounterId(t) == SrvId(t + 1)

\* The id of the utils facade: the number Date.now(), a number like the
\* server's ids.
UtlTempId(t) == SrvId(Epoch + t)

VARIABLES
  variant,    \* which implementation runs
  online,     \* navigator.onLine
  clock,      \* the millisecond clock
  srv,        \* the server's collections
  srvNext,    \* next id the server assigns
  db,         \* Local Store collections books / publishers / transactions
  queue,      \* Local Store syncQueue, in key order
  pendingTx,  \* Local Store pendingTransactions (utils), in key order
  nextQid,    \* auto-increment keys of syncQueue and pendingTransactions
  meta,       \* metadata lastSync value (NoTime: never written)
  isSyncing,  \* SyncManager.isSyncing
  runs,       \* syncAll invocations
  timers,     \* pending setTimeout(() => this.syncAll(), 1000) (services)
  autoSync,   \* whether syncInterval is set (utils)
  listeners,  \* 'online' listeners startAutoSync has added to window (utils)
  last,       \* outcome of the latest facade call
  nOps,       \* facade calls made so far
  applied,    \* per queued operation: its successful remote replays (0, 1, 2 = more)
  tokens,     \* localStorage access_token and refresh_token
  req,        \* the Remote Client request in flight and its config
  swStore,    \* object store 'pending-transactions' of FRCLibraryDB, in key order
  swNext,     \* its auto-increment key
  swRuns      \* the service worker's syncTransactions invocations

authVars == <<tokens, req>>
swVars == <<swStore, swNext, swRuns>>
envVars == <<variant, online, authVars, swVars>>
srvVars == <<srv, srvNext>>
storeVars == <<db, queue, pendingTx, nextQid, meta>>
engVars == <<isSyncing, runs>>
trigVars == <<timers, autoSync, listeners>>
histVars == <<last, nOps, applied>>

vars == <<envVars, clock, srvVars, storeVars, engVars, trigVars, histVars>>

Slots == 1..MaxRuns

Min(S) == CHOOSE x \in S : \A y \in S : x <= y

\* IndexedDB put: upsert by primary key.
Put(S, r) == {x \in S : x.id # r.id} \cup {r}
PutAll(S, R) == {x \in S : \A r \in R : r.id # x.id} \cup R
Del(S, id) == {x \in S : x.id # id}

EmptyStores == [s \in Stores |-> {}]

NoRec == [id |-> NoId, data |-> NoData, off |-> FALSE]

IdleRun ==
  [pc |-> "idle", pending |-> <<>>, i |-> 0, loaded |-> 0, qmark |-> 0,
   success |-> 0, failed |-> 0, log |-> <<>>, acked |-> {},
   start |-> NoTime, emptyPath |-> FALSE, pulled |-> FALSE,
   fetched |-> EmptyStores, k |-> 0, opsAtFetch |-> 0, ret |-> "none",
   notified |-> 0]

\* The object getSyncStatus returns, with the flag as it was when the call
\* was made.
NoStatus == [isOnline |-> FALSE, isSyncing |-> FALSE, pendingOperations |-> 0,
             lastSync |-> NoTime, hasPendingChanges |-> FALSE, flagAtCall |-> FALSE]

NoCall == [kind |-> "none", store |-> "books", res |-> "none", rec |-> NoRec,
           netFail |-> FALSE, list |-> {}, term |-> <<>>, status |-> NoStatus]

InFlight(c) == runs[c].pc \notin {"idle", "done"}
FreeSlots == {c \in Slots : ~InFlight(c)}

QueueNames == {"syncQueue", "pendingTransactions"}

\* The state after construction: empty Local Store; the server holds the
\* given books, with ids below next.
\* localStorage without tokens: nobody is logged in.
NoTokens == [access |-> "none", refresh |-> "none"]

\* No request has been made; n counts the requests made so far.
IdleReq == [pc |-> "idle", header |-> "none", retry |-> FALSE, sentRefresh |-> "none",
            refreshes |-> 0, retries |-> 0, status |-> 0, n |-> 0]

\* No syncTransactions invocation: pendingAtRead is the number of pending
\* transactions in the store when the invocation read it, posted the number
\* of POSTs it has made.
IdleSw == [pc |-> "idle", pendingAtRead |-> 0, posted |-> 0, ret |-> "none"]

InitWith(variants, books, next) ==
  /\ variant \in variants
  /\ online \in BOOLEAN
  /\ clock = 0
  /\ srv = [EmptyStores EXCEPT !["books"] = books]
  /\ srvNext = next
  /\ db = EmptyStores
  /\ queue = <<>>
  /\ pendingTx = <<>>
  /\ nextQid = [q \in QueueNames |-> 1]
  /\ meta = NoTime
  /\ isSyncing = FALSE
  /\ runs = [c \in Slots |-> IdleRun]
  /\ timers = 0
  /\ autoSync = FALSE
  /\ listeners = 0
  /\ last = NoCall
  /\ nOps = 0
  /\ applied = [q \in QueueNames |-> [n \in 1..MaxOps |-> 0]]
  /\ tokens = NoTokens
  /\ req = IdleReq
  /\ swStore = <<>>
  /\ swNext = 1
  /\ swRuns = [c \in Slots |-> IdleSw]

\* One book on the server.
InitOf(variants) ==
  InitWith(variants, {[id |-> SrvId(1), data |-> "a", off |-> FALSE]}, 2)

Tick ==
  /\ clock < MaxClock
  /\ clock' = clock + 1
  /\ UNCHANGED <<envVars, srvVars, storeVars, engVars, trigVars, histVars>>

(***************************************************************************)
(* Remote Client / REST server                                             *)
(***************************************************************************)
Creates == {"CREATE_BOOK", "CREATE_PUBLISHER", "CREATE_TRANSACTION"}

StoreOf(type) ==
  CASE type = "CREATE_PUBLISHER" -> "publishers"
    [] type = "CREATE_TRANSACTION" -> "transactions"
    [] OTHER -> "books"

\* Whether the server answers 2xx: a create gets the next id, an update or a
\* delete of an id the server does not hold is answered 404.
SrvAccepts(type, key) ==
  IF type \in Creates THEN srvNext <= MaxSrvId
  ELSE IF type \in {"UPDATE_BOOK", "DELETE_BOOK"}
       THEN \E r \in srv["books"] : r.id = key
       ELSE FALSE

SrvRecord(type, key, data) ==
  [id |-> IF type \in Creates THEN SrvId(srvNext) ELSE key, data |-> data, off |-> FALSE]

SrvAfter(type, key, data) ==
  IF type \in Creates
  THEN [srv EXCEPT ![StoreOf(type)] = @ \cup {SrvRecord(type, key, data)}]
  ELSE IF type = "UPDATE_BOOK"
       THEN [srv EXCEPT !["books"] = Put(@, SrvRecord(type, key, data))]
       ELSE [srv EXCEPT !["books"] = Del(@, key)]

SrvNextAfter(type) == IF type \in Creates THEN srvNext + 1 ELSE srvNext

\* A remote mutation is answered 2xx and takes effect on the server.
RemoteApply(type, key, data) ==
  /\ online
  /\ SrvAccepts(type, key)
  /\ srv' = SrvAfter(type, key, data)
  /\ srvNext' = SrvNextAfter(type)

\* One more successful replay of a queued operation.
Replayed(qn, id) ==
  [applied EXCEPT ![qn][id] = IF @ = 0 THEN 1 ELSE 2]

(***************************************************************************)
(* Text of a record and the search over it                                 *)
(***************************************************************************)
NoTerm == <<>>

\* The attributes behind the data of a record: title, author and isbn, as
\* sequences of characters.
Attr(d) ==
  CASE d = "a" -> [title |-> <<"M", "o">>, author |-> <<"H">>, isbn |-> <<"1">>]
    [] d = "b" -> [title |-> <<"W", "a">>, author |-> <<"T", "o">>, isbn |-> <<"2">>]
    [] d = "c" -> [title |-> <<"o", "m">>, author |-> <<"A">>, isbn |-> <<"1", "X">>]
    [] OTHER -> [title |-> <<>>, author |-> <<>>, isbn |-> <<>>]

\* String.prototype.toLowerCase
LowerChar(ch) ==
  CASE ch = "M" -> "m" [] ch = "O" -> "o" [] ch = "H" -> "h" [] ch = "W" -> "w"
    [] ch = "T" -> "t" [] ch = "A" -> "a" [] ch = "X" -> "x" [] OTHER -> ch

ToLowerCase(s) == [n \in 1..Len(s) |-> LowerChar(s[n])]

\* String.prototype.includes
Includes(s, t) ==
  \E n \in 0..(Len(s) - Len(t)) : SubSeq(s, n + 1, n + Len(t)) = t

\* The search of the REST server (GET /books/?search=term): its code is not
\* part of the frontend; it matches title, author and isbn case-insensitively.
SrvSearch(S, term) ==
  IF term = NoTerm THEN S
  ELSE {r \in S : \/ Includes(ToLowerCase(Attr(r.data).title), ToLowerCase(term))
                  \/ Includes(ToLowerCase(Attr(r.data).author), ToLowerCase(term))
                  \/ Includes(ToLowerCase(Attr(r.data).isbn), ToLowerCase(term))}
(***************************************************************************)
(* services/offlineDB.js                                                   *)
(***************************************************************************)
Reverse(s) == [n \in 1..Len(s) |-> s[Len(s) + 1 - n]]

\* The unsynced items, newest first.
NewestFirst == Reverse(SelectSeq(queue, LAMBDA it : ~it.synced))

\* OfflineDB.getPendingSync: getAll of syncQueue (key order), unsynced only.
GetPendingSync == SelectSeq(queue, LAMBDA it : ~it.synced)

\* A mark that flags every item of the queue.
MarkAllComplete(id) ==
  [n \in 1..Len(queue) |-> [queue[n] EXCEPT !.synced = TRUE, !.syncedAt = clock]]

\* A mark that writes nothing.
MarkNothing(id) == queue

\* OfflineDB.markSyncComplete: read the item, set synced and syncedAt, put it.
MarkSyncComplete(id) ==
  [n \in 1..Len(queue) |->
     IF queue[n].id = id
     THEN [queue[n] EXCEPT !.synced = TRUE, !.syncedAt = clock]
     ELSE queue[n]]

\* OfflineDB.addToSyncQueue: the item gets the next auto-increment key.
QueueItem(qn, type, key, data, t) ==
  [id |-> nextQid[qn], type |-> type, key |-> key, data |-> data, ts |-> t,
   synced |-> FALSE, syncedAt |-> NoTime]

(***************************************************************************)
(* services/syncManager.js                                                 *)
(***************************************************************************)
\* A guard that looks at connectivity only.
SkipsWhenOffline(on) == ~on

\* syncAll, line 52: the guard in front of the try block.
SvcSkips(on) == isSyncing \/ ~on

\* A syncAll invocation passes its guard: the flag is set and the run starts.
StartRun(pc) ==
  /\ FreeSlots # {}
  /\ isSyncing' = TRUE
  /\ runs' = [runs EXCEPT ![Min(FreeSlots)] =
                [IdleRun EXCEPT !.pc = pc, !.start = clock]]

\* A run that leaves the flag as it found it.
FlagStaysUp == TRUE

\* What a run does to the flag when it ends (finally block).
FlagAfterRun == FALSE

\* The run ends: its locals go, its outcome stays to be looked at.
Finish(c, r, ret) ==
  /\ runs' = [runs EXCEPT ![c] =
                [r EXCEPT !.pc = "done", !.ret = ret, !.pending = <<>>, !.i = 0,
                          !.log = <<>>, !.acked = {}, !.fetched = EmptyStores]]
  /\ isSyncing' = FlagAfterRun

\* The run goes on to its next await.
Goto(c, r, pc) ==
  /\ runs' = [runs EXCEPT ![c] = [r EXCEPT !.pc = pc]]
  /\ UNCHANGED isSyncing

\* pullFromServer, line 119: it returns at once when offline.
SvcPullReturnsEarly == ~online

\* After pullFromServer has returned normally.
SvcAfterPull(c, r) ==
  IF r.emptyPath THEN Finish(c, r, "empty") ELSE Goto(c, r, "meta")

\* pullFromServer is entered.
SvcEnterPull(c, r) ==
  IF SvcPullReturnsEarly THEN SvcAfterPull(c, r) ELSE Goto(c, r, "fetch")

\* The for loop moves to the next pending operation, or leaves the loop.
SvcAdvance(c, r) ==
  IF r.i < Len(r.pending)
  THEN Goto(c, [r EXCEPT !.i = @ + 1], "remote")
  ELSE SvcEnterPull(c, r)

SvcSyncAll(on) ==
  /\ variant = "services"
  /\ IF SvcSkips(on) THEN UNCHANGED engVars ELSE StartRun("load")

\* await offlineDB.getPendingSync()
SvcLoad(c) ==
  /\ variant = "services"
  /\ runs[c].pc = "load"
  /\ LET p == GetPendingSync
         r == [runs[c] EXCEPT !.pending = p, !.loaded = Len(p),
                              !.qmark = nextQid["syncQueue"]]
     IN IF Len(p) = 0
        THEN SvcEnterPull(c, [r EXCEPT !.emptyPath = TRUE])
        ELSE Goto(c, [r EXCEPT !.i = 1], "remote")
  /\ UNCHANGED <<envVars, clock, srvVars, storeVars, trigVars, histVars>>

\* await this.processSyncOperation(op)
SvcRemote(c) ==
  /\ variant = "services"
  /\ runs[c].pc = "remote"
  /\ LET r == runs[c]
         op == r.pending[r.i]
         r1 == [r EXCEPT !.log = Append(@, op.id)]
     IN \E ok \in BOOLEAN :
          IF ok
          THEN /\ RemoteApply(op.type, op.key, op.data)
               /\ applied' = Replayed("syncQueue", op.id)
               /\ Goto(c, [r1 EXCEPT !.acked = @ \cup {op.id}], "mark")
          ELSE /\ SvcAdvance(c, [r1 EXCEPT !.failed = @ + 1])
               /\ UNCHANGED <<srvVars, applied>>
  /\ UNCHANGED <<envVars, clock, storeVars, trigVars, last, nOps>>

\* await offlineDB.markSyncComplete(op.id)
SvcMark(c) ==
  /\ variant = "services"
  /\ runs[c].pc = "mark"
  /\ LET r == runs[c]
         op == r.pending[r.i]
     IN \E ok \in BOOLEAN :
          IF ok
          THEN /\ queue' = MarkSyncComplete(op.id)
               /\ SvcAdvance(c, [r EXCEPT !.success = @ + 1])
          ELSE /\ UNCHANGED queue
               /\ SvcAdvance(c, [r EXCEPT !.failed = @ + 1])
  /\ UNCHANGED <<envVars, clock, srvVars, db, pendingTx, nextQid, meta, trigVars, histVars>>

\* A catch block that logs the error and returns.
SvcPullSwallows(c, r) == SvcAfterPull(c, r)

\* pullFromServer, lines 139-142: the catch block rethrows, syncAll's catch
\* block rethrows again: the run ends rejected.
SvcPullThrows(c, r) == Finish(c, r, "threw")

\* pullFromServer: await Promise.all([getAll, getAll, getAll])
SvcFetch(c) ==
  /\ variant = "services"
  /\ runs[c].pc = "fetch"
  /\ LET r == [runs[c] EXCEPT !.pulled = TRUE]
     IN \E ok \in BOOLEAN :
          IF ok
          THEN /\ online
               /\ Goto(c, [r EXCEPT !.k = 1, !.fetched = srv, !.opsAtFetch = nOps], "pullw")
          ELSE SvcPullThrows(c, r)
  /\ UNCHANGED <<envVars, clock, srvVars, storeVars, trigVars, histVars>>

\* pullFromServer, lines 130-136: clearStore x 3, then saveToStore x 3.
PullOrder == <<"books", "publishers", "transactions">>

\* A pull that puts the fetched records without clearing first.
PullMerges(k, fetched) ==
  IF k <= 3 THEN db ELSE [db EXCEPT ![PullOrder[k - 3]] = PutAll(@, fetched[PullOrder[k - 3]])]

SvcPullWriteEffect(k, fetched) ==
  IF k <= 3
  THEN [db EXCEPT ![PullOrder[k]] = {}]
  ELSE [db EXCEPT ![PullOrder[k - 3]] = PutAll(@, fetched[PullOrder[k - 3]])]

SvcPullWrite(c) ==
  /\ variant = "services"
  /\ runs[c].pc = "pullw"
  /\ LET r == runs[c]
     IN \E ok \in BOOLEAN :
          IF ok
          THEN /\ db' = SvcPullWriteEffect(r.k, r.fetched)
               /\ IF r.k < 6
                  THEN Goto(c, [r EXCEPT !.k = @ + 1], "pullw")
                  ELSE SvcAfterPull(c, [r EXCEPT !.k = 7])
          ELSE /\ UNCHANGED db
               /\ SvcPullThrows(c, r)
  /\ UNCHANGED <<envVars, clock, srvVars, queue, pendingTx, nextQid, meta, trigVars, histVars>>

\* await offlineDB.saveMetadata('lastSync', ...), notifySyncComplete, return results
SvcMeta(c) ==
  /\ variant = "services"
  /\ runs[c].pc = "meta"
  /\ \E ok \in BOOLEAN :
       IF ok
       THEN /\ meta' = clock
            /\ Finish(c, [runs[c] EXCEPT !.notified = @ + 1], "results")
       ELSE /\ UNCHANGED meta
            /\ Finish(c, runs[c], "threw")
  /\ UNCHANGED <<envVars, clock, srvVars, db, queue, pendingTx, nextQid, trigVars, histVars>>

(***************************************************************************)
(* services/offlineAPI.js: the facade over the services variant            *)
(***************************************************************************)
OpType(kind, store) ==
  CASE kind = "update" -> "UPDATE_BOOK"
    [] kind = "delete" -> "DELETE_BOOK"
    [] store = "publishers" -> "CREATE_PUBLISHER"
    [] store = "transactions" -> "CREATE_TRANSACTION"
    [] OTHER -> "CREATE_BOOK"

\* The record the offline path constructs and returns: a create gets
\* `temp_${Date.now()}` and _offline: true, an update keeps the id.
SvcLocalRecord(kind, id, data) ==
  IF kind = "create"
  THEN [id |-> TempId(clock), data |-> data, off |-> TRUE]
  ELSE IF kind = "update"
       THEN [id |-> id, data |-> data, off |-> FALSE]
       ELSE NoRec

\* The payload handed to the queue: book_id for an update or a delete.
QueuedKey(kind, id) == IF kind = "create" THEN NoId ELSE id
QueuedData(kind, data) == IF kind = "delete" THEN NoData ELSE data

\* The online branch is taken when navigator.onLine is true.
SvcTriesRemote == online

\* The Local Store after the mirror write of the online branch.
SvcMirror(kind, store, id, rec) ==
  [db EXCEPT ![store] = IF kind = "delete" THEN Del(@, id) ELSE Put(@, rec)]

\* An offline path that leaves the store alone.
LocalWriteNothing(kind, store, id, data) == db

\* The Local Store after the first write of the offline path.
SvcLocalWrite(kind, store, id, data) ==
  [db EXCEPT ![store] = IF kind = "delete" THEN Del(@, id)
                        ELSE Put(@, SvcLocalRecord(kind, id, data))]

\* syncManager.queueOperation: add the item, and set the 1 s timer when
\* online and not syncing.
SvcQueueOperation(type, key, data) ==
  /\ queue' = Append(queue, QueueItem("syncQueue", type, key, data, clock))
  /\ nextQid' = [nextQid EXCEPT !["syncQueue"] = @ + 1]
  /\ timers' = IF online /\ ~isSyncing THEN timers + 1 ELSE timers
  /\ UNCHANGED <<pendingTx, autoSync, listeners>>

\* The calls the user interface can make: a create in a store, an update or
\* a delete of a book it shows (one the Local Store holds).
CallsOn(stores, kinds) ==
  [kind : {"create"} \cap kinds, store : stores, id : {NoId}, data : Data]
    \cup [kind : {"update"} \cap kinds, store : {"books"} \cap stores,
          id : {r.id : r \in db["books"]}, data : Data]
    \cup [kind : {"delete"} \cap kinds, store : {"books"} \cap stores,
          id : {r.id : r \in db["books"]}, data : {NoData}]

\* Outcomes of the awaited operations of one write, in the order of the code:
\*   rem: the remote call: "ok", "net" (no response), "http" (a non-2xx
\*        response), "none" (not made);
\*   mir: the Local Store write after a successful remote call;
\*   loc: the Local Store write of the offline path;
\*   enq: the enqueue.
\* An operation that is not reached has outcome "ok".
Outcome(rem, mir, loc, enq) == [rem |-> rem, mir |-> mir, loc |-> loc, enq |-> enq]

OfflinePathOutcomes(rem, mir) ==
  {Outcome(rem, mir, "ok", "ok"), Outcome(rem, mir, "ok", "fail"),
   Outcome(rem, mir, "fail", "ok")}

SvcWriteOutcomes(triesRemote) ==
  IF triesRemote
  THEN {Outcome("ok", "ok", "ok", "ok")}
         \cup OfflinePathOutcomes("ok", "fail")
         \cup OfflinePathOutcomes("net", "ok") \cup OfflinePathOutcomes("http", "ok")
  ELSE OfflinePathOutcomes("none", "ok")

\* Whether the remote call of a facade call can have this outcome now: a 2xx
\* needs connectivity and a server that accepts, an error response needs
\* connectivity and a server that refuses.
RemotePossible(rem, type, key) ==
  CASE rem = "ok" -> online /\ SrvAccepts(type, key)
    [] rem = "http" -> online /\ ~SrvAccepts(type, key)
    [] OTHER -> TRUE

CallResult(call, res, rec, rem) ==
  [kind |-> call.kind, store |-> call.store, res |-> res, rec |-> rec,
   netFail |-> rem \in {"net", "http"}, list |-> {}, term |-> NoTerm,
   status |-> NoStatus]

\* The remote part of a facade write.
RemotePart(rem, type, call) ==
  /\ RemotePossible(rem, type, call.id)
  /\ IF rem = "ok"
     THEN /\ srv' = SrvAfter(type, call.id, call.data)
          /\ srvNext' = SrvNextAfter(type)
     ELSE UNCHANGED srvVars

\* books.create / update / delete, publishers.create, transactions.create.
SvcWrite(call, out) ==
  /\ variant = "services"
  /\ nOps' = nOps + 1
  /\ out \in SvcWriteOutcomes(SvcTriesRemote)
  /\ LET type == OpType(call.kind, call.store)
         srec == SrvRecord(type, call.id, call.data)
         lrec == SvcLocalRecord(call.kind, call.id, call.data)
     IN /\ RemotePart(out.rem, type, call)
        /\ IF out.rem = "ok" /\ out.mir = "ok"
           THEN \* resolved with the server's record
                /\ db' = SvcMirror(call.kind, call.store, call.id, srec)
                /\ last' = CallResult(call, "server",
                                      IF call.kind = "delete" THEN NoRec ELSE srec, out.rem)
                /\ UNCHANGED <<queue, pendingTx, nextQid, trigVars>>
           ELSE \* the catch block logs and falls through to the offline path
                IF out.loc # "ok"
                THEN /\ last' = CallResult(call, "storage", NoRec, out.rem)
                     /\ UNCHANGED <<db, queue, pendingTx, nextQid, trigVars>>
                ELSE /\ db' = SvcLocalWrite(call.kind, call.store, call.id, call.data)
                     /\ IF out.enq = "ok"
                        THEN /\ SvcQueueOperation(type, QueuedKey(call.kind, call.id),
                                                  QueuedData(call.kind, call.data))
                             /\ last' = CallResult(call, "local", lrec, out.rem)
                        ELSE /\ last' = CallResult(call, "storage", NoRec, out.rem)
                             /\ UNCHANGED <<queue, pendingTx, nextQid, trigVars>>
  /\ UNCHANGED <<envVars, clock, meta, engVars, applied>>

(***************************************************************************)
(* utils/db.js: Dexie helpers.  Each catches its errors and logs them,     *)
(* except addPendingTransaction and addToSyncQueue, which rethrow.         *)
(***************************************************************************)
\* Table.add: rejected when the key exists.
Add(S, r) == IF \E x \in S : x.id = r.id THEN S ELSE S \cup {r}

\* Table.update: changes the record under the key, if there is one.
Upd(S, id, r) == IF \E x \in S : x.id = id THEN Put(S, [r EXCEPT !.id = id]) ELSE S

\* saveBooks / savePublishers / saveTransactions: clear(), then bulkAdd().
\* "fail": clear() rejected; "cleared": bulkAdd() rejected after the clear.
SaveOutcomes == {"ok", "fail", "cleared"}

SaveAll(S, R, o) == IF o = "ok" THEN R ELSE IF o = "cleared" THEN {} ELSE S

\* getSyncQueue / getPendingTransactions: where('synced').equals(false); a
\* rejected query is caught and answered with [].
GetUnsynced(q, ok) == IF ok THEN SelectSeq(q, LAMBDA it : ~it.synced) ELSE <<>>

\* markSynced / markTransactionSynced: update(id, { synced: true }).
MarkSynced(q, id) ==
  [n \in 1..Len(q) |-> IF q[n].id = id THEN [q[n] EXCEPT !.synced = TRUE] ELSE q[n]]

\* clearSyncedItems: where('synced').equals(true).delete()
ClearSyncedItems(q) == SelectSeq(q, LAMBDA it : ~it.synced)

(***************************************************************************)
(* services/offlineApi.js: the facade over the utils variant               *)
(***************************************************************************)
\* What the offline branch returns: the temporary record of a create (id
\* Date.now()), the submitted data of an update, { success: true } of a delete.
UtlLocalRecord(kind, id, data) ==
  IF kind = "create"
  THEN [id |-> UtlTempId(clock), data |-> data, off |-> FALSE]
  ELSE IF kind = "update"
       THEN [id |-> NoId, data |-> data, off |-> FALSE]
       ELSE NoRec

\* The cache update after a successful remote call.
UtlMirror(kind, store, id, rec, o) ==
  [db EXCEPT ![store] =
     IF o = "fail" THEN @
     ELSE IF kind = "delete" THEN Del(@, id)
     ELSE IF kind = "update" THEN Upd(@, id, rec)
     ELSE IF store = "books" THEN Add(@, rec)
     ELSE SaveAll(@, @ \cup {rec}, o)]

\* The cache update of the offline branch.
UtlLocalWrite(kind, store, id, data, o) ==
  UtlMirror(kind, store, id, [id |-> UtlTempId(clock), data |-> data, off |-> FALSE], o)

\* Outcomes of a Local Store write of the facade: the single-request helpers
\* succeed or fail, the save helpers can also stop after the clear.
UtlStoreOutcomes(call) ==
  IF call.kind = "create" /\ call.store # "books" THEN SaveOutcomes ELSE {"ok", "fail"}

\* The catch block serves the call locally only when navigator.onLine is false.
UtlServesLocally == ~online

UtlWriteOutcomes(call) ==
  {Outcome("ok", m, "ok", "ok") : m \in UtlStoreOutcomes(call)}
    \cup {Outcome(rem, "ok", l, e) :
            rem \in {"net", "http"}, l \in UtlStoreOutcomes(call), e \in {"ok", "fail"}}

\* offlineDB.addToSyncQueue / addPendingTransaction
UtlEnqueue(qn, type, key, data) ==
  /\ IF qn = "syncQueue"
     THEN /\ queue' = Append(queue, QueueItem(qn, type, key, data, clock))
          /\ UNCHANGED pendingTx
     ELSE /\ pendingTx' = Append(pendingTx, QueueItem(qn, type, key, data, clock))
          /\ UNCHANGED queue
  /\ nextQid' = [nextQid EXCEPT ![qn] = @ + 1]

\* An offline transaction goes to pendingTransactions, any other operation
\* to syncQueue.
UtlQueueOf(type) ==
  IF type = "CREATE_TRANSACTION" THEN "pendingTransactions" ELSE "syncQueue"

\* books.create / update / delete, publishers.create, transactions.create.
UtlWrite(call, out) ==
  /\ variant = "utils"
  /\ nOps' = nOps + 1
  /\ out \in UtlWriteOutcomes(call)
  /\ LET type == OpType(call.kind, call.store)
         srec == SrvRecord(type, call.id, call.data)
         lrec == UtlLocalRecord(call.kind, call.id, call.data)
     IN /\ RemotePart(out.rem, type, call)
        /\ IF out.rem = "ok"
           THEN \* resolved with the server's record
                /\ db' = UtlMirror(call.kind, call.store, call.id, srec, out.mir)
                /\ last' = CallResult(call, "server",
                                      IF call.kind = "delete" THEN NoRec ELSE srec, out.rem)
                /\ UNCHANGED <<queue, pendingTx, nextQid>>
           ELSE IF ~UtlServesLocally
                THEN \* throw error
                     /\ out.loc = "ok" /\ out.enq = "ok"
                     /\ last' = CallResult(call, "rejected", NoRec, out.rem)
                     /\ UNCHANGED <<db, queue, pendingTx, nextQid>>
                ELSE IF out.enq # "ok"
                     THEN \* the enqueue rethrows; a transaction is enqueued
                          \* before its cache write, anything else after it
                          /\ db' = IF type = "CREATE_TRANSACTION" THEN db
                                   ELSE UtlLocalWrite(call.kind, call.store, call.id,
                                                      call.data, out.loc)
                          /\ type = "CREATE_TRANSACTION" => out.loc = "ok"
                          /\ last' = CallResult(call, "storage", NoRec, out.rem)
                          /\ UNCHANGED <<queue, pendingTx, nextQid>>
                     ELSE /\ db' = UtlLocalWrite(call.kind, call.store, call.id,
                                                 call.data, out.loc)
                          /\ UtlEnqueue(UtlQueueOf(type), type, QueuedKey(call.kind, call.id),
                                        QueuedData(call.kind, call.data))
                          /\ last' = CallResult(call, "local", lrec, out.rem)
  /\ UNCHANGED <<envVars, clock, meta, engVars, trigVars, applied>>

\* books.getAll / publishers.getAll / transactions.getAll of the services
\* facade: online, the server's list is put into the store and returned; a
\* failure there, or being offline, answers from the Local Store.
GetAllOutcomes == {Outcome("ok", "ok", "ok", "ok"), Outcome("ok", "fail", "ok", "ok"),
                   Outcome("net", "ok", "ok", "ok"), Outcome("none", "ok", "ok", "ok")}

ListResult(store, term, res, list, rem) ==
  [kind |-> "getAll", store |-> store, res |-> res, rec |-> NoRec,
   netFail |-> rem \in {"net", "http"}, list |-> list, term |-> term,
   status |-> NoStatus]

\* What the server answers to getAll: books take the search term.
SrvList(store, term) ==
  IF store = "books" THEN SrvSearch(srv[store], term) ELSE srv[store]

\* books.getAll, lines 44-49: the client-side filter of the fallback.
SvcFilter(S, term) ==
  {r \in S : \/ Includes(ToLowerCase(Attr(r.data).title), ToLowerCase(term))
             \/ Includes(ToLowerCase(Attr(r.data).author), ToLowerCase(term))}

\* What the fallback returns: only books.getAll filters, and only a
\* non-empty term.
SvcLocalList(store, term) ==
  IF store = "books" /\ term # NoTerm THEN SvcFilter(db[store], term) ELSE db[store]

SvcGetAll(store, term, out) ==
  /\ variant = "services"
  /\ nOps' = nOps + 1
  /\ out \in GetAllOutcomes
  /\ store # "books" => term = NoTerm
  /\ (out.rem = "none") = ~SvcTriesRemote
  /\ out.rem = "ok" => online
  /\ IF out.rem = "ok" /\ out.mir = "ok"
     THEN /\ db' = [db EXCEPT ![store] = PutAll(@, SrvList(store, term))]
          /\ last' = ListResult(store, term, "server", SrvList(store, term), out.rem)
     ELSE /\ UNCHANGED db
          /\ last' = ListResult(store, term, "local", SvcLocalList(store, term), out.rem)
  /\ UNCHANGED <<envVars, clock, srvVars, queue, pendingTx, nextQid, meta, engVars,
                 trigVars, applied>>

\* offlineBooksAPI.getAll, lines 21-27: the filter of the offline branch;
\* title and author case-insensitively, isbn as typed.
UtlFilter(S, term) ==
  {r \in S : \/ Includes(ToLowerCase(Attr(r.data).title), ToLowerCase(term))
             \/ Includes(ToLowerCase(Attr(r.data).author), ToLowerCase(term))
             \/ Includes(Attr(r.data).isbn, term)}

UtlLocalList(store, term) ==
  IF store = "books" /\ term # NoTerm THEN UtlFilter(db[store], term) ELSE db[store]

\* The catch block of getAll serves the cache only when navigator.onLine is
\* false, and rethrows otherwise.
UtlReadsCache == ~online

\* The remote call of a utils getAll and the save that follows it.
UtlGetAllOutcomes ==
  {Outcome("ok", m, "ok", "ok") : m \in SaveOutcomes} \cup {Outcome("net", "ok", "ok", "ok")}

\* books.getAll / publishers.getAll / transactions.getAll of the utils
\* facade: the remote call is always made; its list replaces the cache and
\* is returned; when it fails the cache answers if offline.
UtlGetAll(store, term, out) ==
  /\ variant = "utils"
  /\ nOps' = nOps + 1
  /\ out \in UtlGetAllOutcomes
  /\ store # "books" => term = NoTerm
  /\ out.rem = "ok" => online
  /\ IF out.rem = "ok"
     THEN /\ db' = [db EXCEPT ![store] = SaveAll(@, SrvList(store, term), out.mir)]
          /\ last' = ListResult(store, term, "server", SrvList(store, term), out.rem)
     ELSE /\ UNCHANGED db
          /\ last' = IF UtlReadsCache
                     THEN ListResult(store, term, "local", UtlLocalList(store, term), out.rem)
                     ELSE ListResult(store, term, "rejected", {}, out.rem)
  /\ UNCHANGED <<envVars, clock, srvVars, queue, pendingTx, nextQid, meta, engVars,
                 trigVars, applied>>

(***************************************************************************)
(* utils/syncManager.js                                                    *)
(***************************************************************************)
\* syncAll, lines 53 and 58: the two guards in front of the try block.
UtlSkips(on) == isSyncing \/ ~on

UtlSyncAll(on) ==
  /\ variant = "utils"
  /\ IF UtlSkips(on) THEN UNCHANGED engVars ELSE StartRun("uLoadTx")

\* The loop over the loaded items moves on, or the phase ends.
UtlAdvance(c, r, again, after) ==
  IF r.i < Len(r.pending)
  THEN Goto(c, [r EXCEPT !.i = @ + 1], again)
  ELSE Goto(c, [r EXCEPT !.i = 0, !.pending = <<>>, !.log = <<>>, !.acked = {}], after)

\* syncPendingTransactions: await offlineDB.getPendingTransactions()
UtlLoadTx(c) ==
  /\ variant = "utils"
  /\ runs[c].pc = "uLoadTx"
  /\ \E ok \in BOOLEAN :
       LET p == GetUnsynced(pendingTx, ok)
       IN IF Len(p) = 0
          THEN Goto(c, runs[c], "uLoadQ")
          ELSE Goto(c, [runs[c] EXCEPT !.pending = p, !.i = 1], "uPostTx")
  /\ UNCHANGED <<envVars, clock, srvVars, storeVars, trigVars, histVars>>

\* await apiClient.post('/transactions/', item.data)
UtlPostTx(c) ==
  /\ variant = "utils"
  /\ runs[c].pc = "uPostTx"
  /\ LET r == runs[c]
         op == r.pending[r.i]
         r1 == [r EXCEPT !.log = Append(@, op.id)]
     IN \E ok \in BOOLEAN :
          IF ok
          THEN /\ RemoteApply(op.type, op.key, op.data)
               /\ applied' = Replayed("pendingTransactions", op.id)
               /\ Goto(c, [r1 EXCEPT !.acked = @ \cup {op.id}], "uMarkTx")
          ELSE /\ UtlAdvance(c, r1, "uPostTx", "uLoadQ")
               /\ UNCHANGED <<srvVars, applied>>
  /\ UNCHANGED <<envVars, clock, storeVars, trigVars, last, nOps>>

\* await offlineDB.markTransactionSynced(item.id); the following
\* offlineDB.transactions.add does not exist on the helper object, so the
\* TypeError lands in the item's catch block.
UtlMarkTx(c) ==
  /\ variant = "utils"
  /\ runs[c].pc = "uMarkTx"
  /\ LET r == runs[c]
         op == r.pending[r.i]
     IN \E ok \in BOOLEAN :
          /\ pendingTx' = IF ok THEN MarkSynced(pendingTx, op.id) ELSE pendingTx
          /\ UtlAdvance(c, r, "uPostTx", "uLoadQ")
  /\ UNCHANGED <<envVars, clock, srvVars, db, queue, nextQid, meta, trigVars, histVars>>

\* syncQueue: await offlineDB.getSyncQueue()
UtlLoadQ(c) ==
  /\ variant = "utils"
  /\ runs[c].pc = "uLoadQ"
  /\ \E ok \in BOOLEAN :
       LET p == GetUnsynced(queue, ok)
       IN IF Len(p) = 0
          THEN Goto(c, [runs[c] EXCEPT !.k = 1], "uFetch")
          ELSE Goto(c, [runs[c] EXCEPT !.pending = p, !.i = 1, !.loaded = Len(p),
                                       !.qmark = nextQid["syncQueue"]], "uRemote")
  /\ UNCHANGED <<envVars, clock, srvVars, storeVars, trigVars, histVars>>

\* The phase after the queue loop: pullLatestData.
UtlAfterQueue(c, r) == UtlAdvance(c, [r EXCEPT !.k = 1], "uRemote", "uFetch")

\* await apiClient.post / put / delete for the item
UtlRemote(c) ==
  /\ variant = "utils"
  /\ runs[c].pc = "uRemote"
  /\ LET r == runs[c]
         op == r.pending[r.i]
         r1 == [r EXCEPT !.log = Append(@, op.id)]
     IN \E ok \in BOOLEAN :
          IF ok
          THEN /\ RemoteApply(op.type, op.key, op.data)
               /\ applied' = Replayed("syncQueue", op.id)
               /\ Goto(c, [r1 EXCEPT !.acked = @ \cup {op.id}], "uMark")
          ELSE /\ UtlAfterQueue(c, r1)
               /\ UNCHANGED <<srvVars, applied>>
  /\ UNCHANGED <<envVars, clock, storeVars, trigVars, last, nOps>>

\* await offlineDB.markSynced(item.id)
UtlMark(c) ==
  /\ variant = "utils"
  /\ runs[c].pc = "uMark"
  /\ LET r == runs[c]
         op == r.pending[r.i]
     IN \E ok \in BOOLEAN :
          /\ queue' = IF ok THEN MarkSynced(queue, op.id) ELSE queue
          /\ UtlAfterQueue(c, r)
  /\ UNCHANGED <<envVars, clock, srvVars, db, pendingTx, nextQid, meta, trigVars, histVars>>

\* pullLatestData: await apiClient.get('/books/'), then publishers, transactions
UtlFetch(c) ==
  /\ variant = "utils"
  /\ runs[c].pc = "uFetch"
  /\ LET r == [runs[c] EXCEPT !.pulled = TRUE]
     IN \E ok \in BOOLEAN :
          IF ok
          THEN /\ online
               /\ Goto(c, [r EXCEPT !.fetched[PullOrder[r.k]] = srv[PullOrder[r.k]]], "uSave")
          ELSE Finish(c, r, "failure")
  /\ UNCHANGED <<envVars, clock, srvVars, storeVars, trigVars, histVars>>

\* await offlineDB.saveBooks / savePublishers / saveTransactions
UtlSave(c) ==
  /\ variant = "utils"
  /\ runs[c].pc = "uSave"
  /\ LET r == runs[c]
         s == PullOrder[r.k]
     IN \E o \in SaveOutcomes :
          /\ db' = [db EXCEPT ![s] = SaveAll(@, r.fetched[s], o)]
          /\ IF r.k < 3
             THEN Goto(c, [r EXCEPT !.k = @ + 1], "uFetch")
             ELSE Goto(c, [r EXCEPT !.k = 7], "uClean")
  /\ UNCHANGED <<envVars, clock, srvVars, queue, pendingTx, nextQid, meta, trigVars, histVars>>

\* await offlineDB.clearSyncedItems(), the dataSync event, return success
UtlClean(c) ==
  /\ variant = "utils"
  /\ runs[c].pc = "uClean"
  /\ \E ok \in BOOLEAN :
       /\ queue' = IF ok THEN ClearSyncedItems(queue) ELSE queue
       /\ Finish(c, runs[c], "success")
  /\ UNCHANGED <<envVars, clock, srvVars, db, pendingTx, nextQid, meta, trigVars, histVars>>

(***************************************************************************)
(* Callers of syncAll and the environment                                  *)
(***************************************************************************)
SyncAll(on) ==
  IF variant = "services" THEN SvcSyncAll(on) ELSE UtlSyncAll(on)

\* window 'online' event: the services manager listens from construction,
\* the utils manager once startAutoSync has run.
GoOnline ==
  /\ ~online
  /\ online' = TRUE
  /\ UNCHANGED <<variant, authVars, swVars>>
  /\ IF variant = "utils" /\ listeners = 0
     THEN UNCHANGED engVars
     ELSE SyncAll(TRUE)
  /\ UNCHANGED <<clock, srvVars, storeVars, trigVars, histVars>>

GoOffline ==
  /\ online
  /\ online' = FALSE
  /\ UNCHANGED <<variant, authVars, swVars, clock, srvVars, storeVars, engVars, trigVars, histVars>>

\* manualSync (services), a direct syncAll() call (utils)
ManualSync ==
  /\ SyncAll(online)
  /\ UNCHANGED <<envVars, clock, srvVars, storeVars, trigVars, histVars>>

\* What a skipped syncAll call returns: the services manager a bare return
\* in both cases, the utils manager a bare return when a run is in flight
\* and an object { success: false, message } when offline.
SkipResult ==
  IF variant = "services" THEN "undefined"
  ELSE IF isSyncing THEN "undefined" ELSE "object"

\* offlineAPI.sync() (services) or syncManager.syncAll() (utils), called by
\* code that keeps the returned value: that of a skipped call is there at
\* once, that of a run is a promise still pending.
SyncCall ==
  /\ SyncAll(online)
  /\ last' = [NoCall EXCEPT !.kind = "sync",
                            !.res = IF isSyncing \/ ~online THEN SkipResult ELSE "pending"]
  /\ UNCHANGED <<envVars, clock, srvVars, storeVars, trigVars, nOps, applied>>

\* offlineDB.markSyncComplete(id) (services) or offlineDB.markSynced(id)
\* (utils), called on the exported store object.
MarkCall(id) ==
  /\ \E ok \in BOOLEAN :
       queue' = IF ~ok THEN queue
                ELSE IF variant = "services" THEN MarkSyncComplete(id)
                ELSE MarkSynced(queue, id)
  /\ UNCHANGED <<envVars, clock, srvVars, db, pendingTx, nextQid, meta, engVars,
                 trigVars, histVars>>

\* A count of every item of the queue, synced or not.
QueueLength == Len(queue)

\* getSyncStatus, line 164 and 170: pendingOps.length
PendingCount == Len(GetPendingSync)

\* syncManager.getSyncStatus() is called (services): getPendingSync is
\* under way.
GetSyncStatus ==
  /\ variant = "services"
  /\ last' = [NoCall EXCEPT !.kind = "status", !.res = "queue",
                            !.status.flagAtCall = isSyncing]
  /\ UNCHANGED <<envVars, clock, srvVars, storeVars, engVars, trigVars, nOps, applied>>

\* await offlineDB.getPendingSync() returns; getMetadata is under way.
StatusQueue ==
  /\ last.kind = "status" /\ last.res = "queue"
  /\ last' = [last EXCEPT !.res = "meta", !.status.pendingOperations = PendingCount]
  /\ UNCHANGED <<envVars, clock, srvVars, storeVars, engVars, trigVars, nOps, applied>>

\* await offlineDB.getMetadata('lastSync') returns; the object is built
\* and returned.
StatusMeta ==
  /\ last.kind = "status" /\ last.res = "meta"
  /\ last' = [last EXCEPT !.res = "done",
                          !.status.isOnline = online,
                          !.status.isSyncing = isSyncing,
                          !.status.lastSync = meta,
                          !.status.hasPendingChanges = (last.status.pendingOperations > 0)]
  /\ UNCHANGED <<envVars, clock, srvVars, storeVars, engVars, trigVars, nOps, applied>>

\* the timer set by queueOperation fires (services)
TimerFire ==
  /\ timers > 0
  /\ timers' = timers - 1
  /\ SvcSyncAll(online)
  /\ UNCHANGED <<envVars, clock, srvVars, storeVars, autoSync, listeners, histVars>>

\* startAutoSync (utils): initial syncAll, then the interval and the listener
StartAutoSync ==
  /\ variant = "utils"
  /\ ~autoSync
  /\ listeners < MaxListeners
  /\ autoSync' = TRUE
  /\ listeners' = listeners + 1
  /\ UtlSyncAll(online)
  /\ UNCHANGED <<envVars, clock, srvVars, storeVars, timers, histVars>>

\* stopAutoSync (utils): clearInterval and syncInterval = null; the
\* listeners stay on window.
StopAutoSync ==
  /\ variant = "utils"
  /\ autoSync' = FALSE
  /\ UNCHANGED <<envVars, clock, srvVars, storeVars, engVars, timers, listeners, histVars>>

\* the interval callback (utils): syncAll when navigator.onLine
IntervalFire ==
  /\ autoSync
  /\ online
  /\ UtlSyncAll(online)
  /\ UNCHANGED <<envVars, clock, srvVars, storeVars, trigVars, histVars>>

\* ---------------------------------------------------------------------
\* Remote Client: tokens and the response interceptor (services/api.js)

\* what the server or the network answers: 200, 401, or no response (0)
Statuses == {200, 401, 0}

AuthFrame == UNCHANGED <<variant, online, swVars, clock, srvVars, storeVars, engVars, trigVars, histVars>>

\* authAPI.login succeeded: both tokens are stored
Login ==
  /\ tokens' = [access |-> "old", refresh |-> "old"]
  /\ UNCHANGED req
  /\ AuthFrame

\* authAPI.logout
Logout ==
  /\ tokens' = NoTokens
  /\ UNCHANGED req
  /\ AuthFrame

\* apiClient sends a request; the request interceptor attaches the stored
\* access token.
Request ==
  /\ req.pc \in {"idle", "done"}
  /\ req.n < MaxReqs
  /\ req' = [IdleReq EXCEPT !.pc = "sent", !.header = tokens.access, !.n = req.n + 1]
  /\ UNCHANGED tokens
  /\ AuthFrame

\* The response interceptor: a response passes; a 401 on a config without
\* _retry sets _retry and posts the stored refresh token; any other error
\* is rejected as it is.
Answer ==
  /\ req.pc = "sent"
  /\ \E s \in Statuses :
       req' = IF s = 200
              THEN [req EXCEPT !.pc = "done", !.status = 200]
              ELSE IF s = 401 /\ ~req.retry
              THEN [req EXCEPT !.pc = "refresh", !.retry = TRUE,
                               !.sentRefresh = tokens.refresh,
                               !.refreshes = @ + 1]
              ELSE [req EXCEPT !.pc = "done", !.status = s]
  /\ UNCHANGED tokens
  /\ AuthFrame

\* The refresh call returns: the new access token is stored and the
\* request is sent again through apiClient, or both tokens are removed and
\* the refresh error is rejected.  Without a refresh token the call fails.
RefreshAnswer ==
  /\ req.pc = "refresh"
  /\ \/ /\ req.sentRefresh # "none"
        /\ tokens' = [tokens EXCEPT !.access = "new"]
        /\ req' = [req EXCEPT !.pc = "sent", !.header = "new", !.retries = @ + 1]
     \/ /\ tokens' = NoTokens
        /\ \E s \in Statuses \ {200} : req' = [req EXCEPT !.pc = "done", !.status = s]
  /\ AuthFrame

\* ---------------------------------------------------------------------
\* Background sync: DatabaseManager (utils/db.js) and the service worker

SwFrame ==
  UNCHANGED <<variant, online, authVars, clock, srvVars, storeVars, engVars, trigVars, histVars>>

\* db.savePendingTransaction: store.add of the data with the access token
\* of the moment; the key is generated.
SavePendingTransaction ==
  /\ Len(swStore) < MaxOps
  /\ swStore' = Append(swStore, [id |-> swNext, token |-> tokens.access])
  /\ swNext' = swNext + 1
  /\ UNCHANGED swRuns
  /\ SwFrame

\* a 'sync' event tagged sync-transactions: syncTransactions() is invoked;
\* nothing keeps two invocations from overlapping.
SwSyncEvent ==
  /\ \E c \in Slots :
       /\ swRuns[c].pc \in {"idle", "done"}
       /\ \A d \in Slots : d < c => swRuns[d].pc \notin {"idle", "done"}
       /\ swRuns' = [swRuns EXCEPT ![c] = [IdleSw EXCEPT !.pc = "open"]]
  /\ UNCHANGED <<swStore, swNext>>
  /\ SwFrame

\* await openDB()
SwOpen(c) ==
  /\ swRuns[c].pc = "open"
  /\ \E ok \in BOOLEAN :
       swRuns' = [swRuns EXCEPT ![c] =
                    IF ok THEN [@ EXCEPT !.pc = "getAll"]
                    ELSE [@ EXCEPT !.pc = "done", !.ret = "threw"]]
  /\ UNCHANGED <<swStore, swNext>>
  /\ SwFrame

\* const pendingTransactions = await store.getAll(): openDB resolves with
\* the IDBDatabase itself, so getAll() returns an IDBRequest; it has no
\* then(), and await yields the request object, not its result.  The
\* for...of over it throws TypeError (not iterable) before the first
\* fetch: the invocation ends rejected with nothing posted and nothing
\* deleted, whatever the store holds.
SwGetAll(c) ==
  /\ swRuns[c].pc = "getAll"
  /\ swRuns' = [swRuns EXCEPT ![c] = [@ EXCEPT !.pc = "done", !.ret = "threw",
                                              !.pendingAtRead = Len(swStore)]]
  /\ UNCHANGED <<swStore, swNext>>
  /\ SwFrame

(***************************************************************************)
(* Next-state relations                                                    *)
(***************************************************************************)
Kinds == {"create", "update", "delete"}

AllWriteOutcomes == SvcWriteOutcomes(TRUE) \cup SvcWriteOutcomes(FALSE)

\* The environment: connectivity changes and the callers of syncAll.
Env ==
  \/ GoOnline
  \/ GoOffline
  \/ ManualSync

SvcEnv == TimerFire

UtlEnv ==
  \/ StartAutoSync
  \/ IntervalFire

\* The steps of a services syncAll run.
SvcRun ==
  \/ \E c \in Slots : SvcLoad(c)
  \/ \E c \in Slots : SvcRemote(c)
  \/ \E c \in Slots : SvcMark(c)
  \/ \E c \in Slots : SvcFetch(c)
  \/ \E c \in Slots : SvcPullWrite(c)
  \/ \E c \in Slots : SvcMeta(c)

\* The steps of a utils syncAll run.
UtlRun ==
  \/ \E c \in Slots : UtlLoadTx(c)
  \/ \E c \in Slots : UtlPostTx(c)
  \/ \E c \in Slots : UtlMarkTx(c)
  \/ \E c \in Slots : UtlLoadQ(c)
  \/ \E c \in Slots : UtlRemote(c)
  \/ \E c \in Slots : UtlMark(c)
  \/ \E c \in Slots : UtlFetch(c)
  \/ \E c \in Slots : UtlSave(c)
  \/ \E c \in Slots : UtlClean(c)

\* Facade calls of the given kinds on the given stores, at most n of them
\* in a behaviour.
SvcWrites(n, stores, kinds) ==
  /\ nOps < n
  /\ \E call \in CallsOn(stores, kinds), out \in AllWriteOutcomes : SvcWrite(call, out)

UtlWrites(n, stores, kinds) ==
  /\ nOps < n
  /\ \E call \in CallsOn(stores, kinds) : \E out \in UtlWriteOutcomes(call) : UtlWrite(call, out)

SvcReads(n, stores, terms) ==
  /\ nOps < n
  /\ \E s \in stores, t \in terms, out \in GetAllOutcomes : SvcGetAll(s, t, out)

UtlReads(n, stores, terms) ==
  /\ nOps < n
  /\ \E s \in stores, t \in terms, out \in UtlGetAllOutcomes : UtlGetAll(s, t, out)

Engine == Env \/ SvcEnv \/ UtlEnv \/ SvcRun \/ UtlRun

Init == InitOf({"services", "utils"})

\* Every action, every call of both facades, at most MaxCalls calls.
Next ==
  \/ Tick
  \/ Engine
  \/ SvcWrites(MaxCalls, Stores, Kinds)
  \/ UtlWrites(MaxCalls, Stores, Kinds)
  \/ SvcReads(MaxCalls, Stores, {NoTerm})

Spec == Init /\ [][Next]_vars

\* The queues under load: both sync managers, up to MaxOps creations.
NextQueue ==
  \/ Engine
  \/ SvcWrites(MaxOps, {"books"}, {"create"})
  \/ UtlWrites(MaxOps, {"books", "transactions"}, {"create"})

SpecQueue == Init /\ [][NextQueue]_vars

\* The services variant with the clock running: book creations and reads.
NextOrder ==
  \/ Tick
  \/ Env
  \/ SvcEnv
  \/ SvcRun
  \/ SvcWrites(MaxOps, {"books"}, {"create"})
  \/ SvcReads(MaxOps, {"books"}, {NoTerm})

SpecOrder == InitOf({"services"}) /\ [][NextOrder]_vars

\* The reads of both facades over a catalogue of three books, with
\* connectivity that can drop.
Terms == {NoTerm, <<"m", "o">>, <<"O">>, <<"1">>}

Catalogue ==
  {[id |-> SrvId(1), data |-> "a", off |-> FALSE],
   [id |-> SrvId(2), data |-> "b", off |-> FALSE],
   [id |-> SrvId(3), data |-> "c", off |-> FALSE]}

InitRead == InitWith({"services", "utils"}, Catalogue, 4)

NextRead ==
  \/ GoOffline
  \/ SvcReads(MaxReads, Stores, Terms)
  \/ UtlReads(MaxReads, Stores, Terms)

SpecRead == InitRead /\ [][NextRead]_vars

\* Both sync managers with one creation, every awaited call of a run
\* eventually returning or failing.
NextLive ==
  \/ Engine
  \/ SvcWrites(MaxCalls, {"books"}, {"create"})
  \/ UtlWrites(MaxCalls, {"books", "transactions"}, {"create"})

SpecLive == Init /\ [][NextLive]_vars /\ WF_vars(SvcRun) /\ WF_vars(UtlRun)

\* Both sync managers with callers that look at what syncAll returns.
NextSkip ==
  \/ NextLive
  \/ SyncCall

SpecSkip == Init /\ [][NextSkip]_vars

\* The queue store on its own: creations that are enqueued and marks of
\* any key, with the clock running.
MarkCalls == \E id \in 1..(MaxOps + 1) : MarkCall(id)

NextMark ==
  \/ Tick
  \/ GoOffline
  \/ SvcWrites(MaxOps, {"books"}, {"create"})
  \/ UtlWrites(MaxOps, {"books"}, {"create"})
  \/ MarkCalls

SpecMark == Init /\ [][NextMark]_vars

\* The utils variant with the clock running: creations of books and
\* transactions.
NextUtlOrder ==
  \/ Tick
  \/ Env
  \/ UtlEnv
  \/ UtlRun
  \/ UtlWrites(MaxOps, {"books", "transactions"}, {"create"})

SpecUtlOrder == InitOf({"utils"}) /\ [][NextUtlOrder]_vars

\* The services variant with a user interface that asks for the status.
Status ==
  \/ GetSyncStatus
  \/ StatusQueue
  \/ StatusMeta

NextStatus ==
  \/ Tick
  \/ Env
  \/ SvcEnv
  \/ SvcRun
  \/ SvcWrites(MaxCalls, {"books"}, {"create"})
  \/ Status

SpecStatus == InitOf({"services"}) /\ [][NextStatus]_vars

\* The Remote Client alone: logins, logouts and requests with every answer.
NextAuth ==
  \/ Login
  \/ Logout
  \/ Request
  \/ Answer
  \/ RefreshAnswer

SpecAuth == InitOf({"services"}) /\ [][NextAuth]_vars

\* The services engine left to its own triggers: the 'online' event and
\* the enqueue timer; no manualSync.  Runs take their steps and timers
\* fire.
NextDrain ==
  \/ GoOnline
  \/ GoOffline
  \/ TimerFire
  \/ SvcRun
  \/ SvcWrites(MaxCalls, {"books"}, {"create"})

SpecDrain ==
  InitOf({"services"}) /\ [][NextDrain]_vars /\ WF_vars(SvcRun) /\ WF_vars(TimerFire)


\* The services variant with every kind of write on books: a book created
\* offline can be updated or deleted before it has reached the server.
NextTemp ==
  \/ Env
  \/ SvcEnv
  \/ SvcRun
  \/ SvcWrites(MaxOps, {"books"}, Kinds)

SpecTemp == InitOf({"services"}) /\ [][NextTemp]_vars

\* The utils manager switched on and off by the application.
NextAuto ==
  \/ GoOnline
  \/ GoOffline
  \/ StartAutoSync
  \/ StopAutoSync
  \/ IntervalFire
  \/ UtlRun
  \/ UtlWrites(MaxCalls, {"books", "transactions"}, {"create"})

SpecAuto == InitOf({"utils"}) /\ [][NextAuto]_vars

\* The page saves pending transactions, the browser sends sync events.
NextSw ==
  \/ Login
  \/ Logout
  \/ SavePendingTransaction
  \/ SwSyncEvent
  \/ \E c \in Slots : SwOpen(c)
  \/ \E c \in Slots : SwGetAll(c)

SpecSw == InitOf({"utils"}) /\ [][NextSw]_vars

(***************************************************************************)
(* Properties                                                              *)
(***************************************************************************)

\* The syncQueue items a run has loaded, looked up by key.
Item(id) == CHOOSE it \in {queue[n] : n \in 1..Len(queue)} : it.id = id
QueueIds == {queue[n].id : n \in 1..Len(queue)}
Replays(id) == applied["syncQueue"][id]

\* A services run that has returned its results object.
SvcReturned(c) ==
  variant = "services" /\ runs[c].pc = "done" /\ runs[c].ret = "results"

\* A step that is a facade write.
WriteStep == nOps' = nOps + 1 /\ last'.kind \in Kinds

Running == {c \in Slots : InFlight(c)}

\* A step in which some caller invokes syncAll.
SyncAllCalled ==
  \/ ManualSync
  \/ TimerFire
  \/ IntervalFire
  \/ StartAutoSync
  \/ GoOnline /\ (variant = "services" \/ autoSync)

C1_OnePass ==
  /\ Cardinality(Running) <= 1
  /\ isSyncing <=> Running # {}

C1_BusyCallInert ==
  isSyncing /\ SyncAllCalled => UNCHANGED <<srvVars, storeVars, engVars>>

\* C1: under any interleaving of the callers of syncAll, in both variants, at
\* most one replay pass is in flight at any time: the flag is up exactly while
\* a run is in flight, and a call made while it is up changes neither the
\* server, nor any Local Store collection, nor the flag or the run.
C1_SingleReplayPass == [](C1_OnePass) /\ [][C1_BusyCallInert]_vars

\* A replay is awaited while a timer set by an earlier enqueue is about to call
\* syncAll.
C1_Witness ==
  \E c \in Slots : runs[c].pc \in {"remote", "mark"} /\ timers > 0

\* A services run whose replay loop is over and whose results are counted.
SvcReplayed(c) ==
  variant = "services" /\ runs[c].pc \in {"fetch", "pullw", "meta"} /\ ~runs[c].emptyPath

\* C2: in one services run a failed replay does not stop the replays after
\* it: every loaded operation is dispatched, each one whose remote call
\* succeeded is marked synced, each one whose remote call failed stays
\* unsynced, and the result counts success = marked synced, failed = failed
\* remote calls, success + failed = loaded.
C2_PartialFailureIsolation ==
  \A c \in Slots :
    SvcReplayed(c) =>
      LET r == runs[c]
          ids == {r.pending[n].id : n \in 1..Len(r.pending)}
      IN /\ Len(r.log) = Len(r.pending)
         /\ r.success + r.failed = r.loaded
         /\ \A id \in r.acked : Item(id).synced
         /\ \A id \in ids \ r.acked : ~Item(id).synced
         /\ r.success = Cardinality({id \in ids : Item(id).synced})
         /\ r.failed = Cardinality(ids \ r.acked)

\* C3: the remote calls of a services run are issued one at a time in the
\* order in which the pending operations were enqueued (ascending key, which
\* is ascending timestamp): the calls made so far are those of a prefix of
\* the loaded list, and the list is in creation order.
C3_IssuedInCreationOrder ==
  \A c \in Slots :
    variant = "services" /\ InFlight(c) =>
      LET r == runs[c]
      IN /\ \A m, n \in 1..Len(r.pending) :
              m < n => r.pending[m].id < r.pending[n].id /\ r.pending[m].ts <= r.pending[n].ts
         /\ Len(r.log) <= Len(r.pending)
         /\ \A m \in 1..Len(r.log) : r.log[m] = r.pending[m].id
         /\ r.pc = "remote" => Len(r.log) = r.i - 1
         /\ r.pc = "mark" => Len(r.log) = r.i

\* Two operations enqueued at different times have both been dispatched.
C3_Witness ==
  \E c \in Slots :
    /\ Len(runs[c].log) = 2
    /\ runs[c].pending[1].ts < runs[c].pending[2].ts

\* C4: every run that passed the guard attempts the full pull after its last
\* replay attempt, and dispatches no replay once the pull has started.
C4_PullFollowsReplay ==
  \A c \in Slots :
    /\ runs[c].pc \in {"meta", "uClean", "done"} => runs[c].pulled
    /\ runs[c].pulled => runs[c].pc \notin {"load", "remote", "mark", "uLoadTx", "uPostTx",
                                            "uMarkTx", "uLoadQ", "uRemote", "uMark"}

\* C5: when the six writes of a services pullFromServer have all succeeded
\* and no facade call was made since the fetch, books, publishers and
\* transactions each hold exactly the fetched set.
C5_PullReplaces ==
  [][\A c \in Slots :
       /\ variant = "services"
       /\ runs[c].pc = "pullw" /\ runs[c].k = 6 /\ runs'[c].k = 7
       /\ runs[c].opsAtFetch = nOps
       => \A s \in Stores : db'[s] = runs[c].fetched[s]]_vars

\* A pull has completed with no facade call since its fetch, and the temporary
\* record of the offline create before it is gone.
C5_Witness ==
  \E c \in Slots :
    /\ variant = "services"
    /\ runs[c].k = 7
    /\ runs[c].opsAtFetch = nOps
    /\ last.kind = "create" /\ last.res = "local"
    /\ last.rec \notin db[last.store]

\* The operations a finished services run had loaded are marked synced, the
\* books collection is the server's set, lastSync is not before the run's start.
C6_Reconciled(c) ==
  /\ \A n \in 1..Len(queue) : queue[n].id < runs[c].qmark => queue[n].synced
  /\ db["books"] = srv["books"]
  /\ meta >= runs[c].start

\* A services run that returned results with no failure, whose pull completed
\* with no facade call since the fetch.
C6_CleanRun(c) ==
  /\ SvcReturned(c)
  /\ runs[c].failed = 0
  /\ runs[c].k = 7
  /\ runs[c].opsAtFetch = nOps

C6_OnlineStartsRun ==
  GoOnline /\ variant = "services" /\ ~isSyncing
    => \E c \in Slots : runs[c].pc # "load" /\ runs'[c].pc = "load" /\ runs'[c].start = clock

C6_AnyOnlineStartsRun ==
  GoOnline /\ variant = "services" /\ (\E n \in 1..Len(queue) : ~queue[n].synced)
    => \E c \in Slots : runs[c].pc # "load" /\ runs'[c].pc = "load"

C7_AppliedAtMostOnce ==
  \A q \in QueueNames : \A n \in 1..MaxOps : applied[q][n] <= 1

C8_CreateOffline ==
  /\ variant = "services" /\ ~online
  /\ nOps' = nOps + 1
  /\ last'.kind = "create" /\ last'.store = "books" /\ last'.res # "storage"
  => /\ last'.res = "local"
     /\ last'.rec.id = TempId(clock) /\ last'.rec.off /\ last'.rec.data \in Data
     /\ last'.rec \in db'["books"]
     /\ Len(queue') = Len(queue) + 1
     /\ SubSeq(queue', 1, Len(queue)) = queue
     /\ LET op == queue'[Len(queue')]
        IN op.type = "CREATE_BOOK" /\ ~op.synced /\ op.data = last'.rec.data

C8_GetAllOffline ==
  /\ variant = "services" /\ ~online
  /\ nOps' = nOps + 1
  /\ last'.kind = "getAll"
  => last'.list = db[last'.store] /\ db' = db

\* C8: offline, a services books.create that gets its writes through resolves
\* with a record carrying a temporary id and the _offline marker, the record
\* is in the books store, exactly one CREATE_BOOK operation with
\* synced = false and the submitted data is appended to the queue, and an
\* offline getAll returns what the store holds.
C8_OfflineRoundTrip == [][C8_CreateOffline /\ C8_GetAllOffline]_vars

\* An offline getAll has returned the record of an offline create.
C8_Witness ==
  /\ variant = "services" /\ ~online
  /\ last.kind = "getAll" /\ last.store = "books"
  /\ \E r \in last.list : r.off
  /\ \E n \in 1..Len(queue) : queue[n].type = "CREATE_BOOK" /\ ~queue[n].synced

C9_LateOpsWait ==
  \A c \in Slots :
    variant = "services" /\ runs[c].pc \notin {"idle", "load"} =>
      /\ \A m \in 1..Len(runs[c].log) : runs[c].log[m] < runs[c].qmark
      /\ \A id \in runs[c].qmark..(nextQid["syncQueue"] - 1) :
           id \in QueueIds /\ ~Item(id).synced

C9_NextRunLoads ==
  \A c \in Slots :
    variant = "services" /\ runs[c].pc = "load" /\ runs'[c].pc # "load" =>
      \A n \in 1..Len(queue) :
        ~queue[n].synced => \E m \in 1..Len(runs'[c].pending) : runs'[c].pending[m] = queue[n]

\* C9: an operation enqueued after a run loaded its pending list is not
\* dispatched by that run, is still in the queue with synced = false when the
\* run ends, and every unsynced operation is in the pending list the next run
\* loads.
C9_EnqueueDuringRun == [](C9_LateOpsWait) /\ [][C9_NextRunLoads]_vars

\* A run that loaded an operation has ended, and an operation enqueued after
\* its load is waiting.
C9_Witness ==
  \E c \in Slots :
    /\ variant = "services"
    /\ runs[c].pc = "done"
    /\ runs[c].loaded >= 1
    /\ runs[c].qmark < nextQid["syncQueue"]

\* C10: in both facades a write whose remote call fails (no response or a
\* non-2xx) is not rejected with that error, whatever navigator.onLine says:
\* it enqueues one operation and resolves with the local record.
C10_NetworkErrorServedLocally ==
  [][WriteStep /\ last'.netFail /\ last'.res # "storage"
       => /\ last'.res = "local"
          /\ Len(queue') + Len(pendingTx') = Len(queue) + Len(pendingTx) + 1]_vars

\* A step that is a getAll of a facade.
ReadStep == nOps' = nOps + 1 /\ last'.kind = "getAll"

\* C11: in both facades a getAll whose remote call failed is not rejected,
\* whatever navigator.onLine says: it resolves from the Local Store, with
\* the whole collection when no search term was given.
C11_GetAllNeverRejects ==
  [][ReadStep /\ last'.netFail
       => /\ last'.res = "local"
          /\ last'.term = NoTerm => last'.list = db[last'.store]]_vars

\* The cached books whose title, author or isbn contains the term, whatever
\* the case of the letters.
Matching(S, term) ==
  {r \in S : \/ Includes(ToLowerCase(Attr(r.data).title), ToLowerCase(term))
             \/ Includes(ToLowerCase(Attr(r.data).author), ToLowerCase(term))
             \/ Includes(ToLowerCase(Attr(r.data).isbn), ToLowerCase(term))}

\* C12: offline, books.getAll(term) of the services facade returns exactly
\* the cached books whose title, author or isbn contains term
\* case-insensitively, and the whole cached collection for an empty term.
C12_OfflineSearchExact ==
  [][variant = "services" /\ ~online /\ ReadStep /\ last'.store = "books"
       => last'.list = Matching(db["books"], last'.term)]_vars

\* Every id the server can assign.
ServerIds == {SrvId(n) : n \in 1..MaxSrvId}

\* C13: in both facades the record of a create served by the offline path
\* (book, publisher, transaction) has an identity apart from every
\* server-assigned id: it carries the offline flag or a string id, or its
\* number lies above the server's range; it equals no id the server has
\* assigned or can assign, and the record stored under it is the local one.
C13_TempIdsApart ==
  [][WriteStep /\ last'.kind = "create" /\ last'.res = "local"
       => LET rec == last'.rec
          IN /\ rec.off \/ rec.id[1] = "t" \/ rec.id[2] >= Epoch
             /\ rec.id \notin ServerIds
             /\ \A s \in Stores : \A r \in srv'[s] : r.id # rec.id
             /\ \A r \in db'[last'.store] : r.id = rec.id => r = rec]_vars

\* The utils facade has served an offline create and the record is cached
\* under its Date.now() id, next to a record of the server.
C13_Witness ==
  /\ variant = "utils"
  /\ last.kind = "create" /\ last.res = "local"
  /\ last.rec \in db[last.store]
  /\ last.rec.id = UtlTempId(clock)
  /\ \E r \in db[last.store] : r.id \in ServerIds

\* The pull of a services run ends without having completed.
PullFails(c) ==
  /\ variant = "services"
  /\ runs[c].pc \in {"fetch", "pullw"}
  /\ runs'[c].pc = "done"
  /\ runs'[c].k # 7

\* C14: when the pull of a services run fails (the fetch or one of the six
\* store writes is rejected), the run ends rejected with that failure, and
\* every operation that is marked synced stays in the queue as it is: the
\* failed pull un-marks and re-queues nothing.
C14_PullFailureKeepsMarks ==
  [][\A c \in Slots :
       PullFails(c)
         => /\ runs'[c].ret = "threw"
            /\ runs'[c].success = runs[c].success
            /\ Len(queue') = Len(queue)
            /\ \A n \in 1..Len(queue) : queue[n].synced => queue'[n] = queue[n]]_vars

\* A run that marked an operation synced has ended with a failed pull, and
\* the operation is still marked.
C14_Witness ==
  \E c \in Slots :
    /\ variant = "services"
    /\ runs[c].pc = "done" /\ runs[c].ret = "threw"
    /\ runs[c].pulled /\ runs[c].k # 7
    /\ runs[c].success >= 1
    /\ \E n \in 1..Len(queue) : queue[n].synced

\* The Local Store holds something an earlier pull or call left there.
PriorCache == meta # NoTime \/ \E s \in Stores : db[s] # {}

\* C15: a services syncAll run does not reject because replays failed; it
\* rejects only when its pull fails and the Local Store holds no prior
\* cache, and resolves with a result object when the pull fails while a
\* prior cache exists.
C15_RejectsOnlyWithoutCache ==
  [][\A c \in Slots :
       /\ variant = "services" /\ InFlight(c)
       /\ runs'[c].pc = "done" /\ runs'[c].ret = "threw"
       => runs[c].pc \in {"fetch", "pullw"} /\ ~PriorCache]_vars

\* C16: every services run that passed the guard and ran to completion,
\* the run that found no pending operation included, has invoked the
\* onSyncComplete callbacks exactly once by the time it has returned.
C16_NotifiesOnce ==
  \A c \in Slots :
    variant = "services" /\ runs[c].pc = "done" /\ runs[c].ret \in {"results", "empty"}
      => runs[c].notified = 1

\* C17: every services run that passed the guard and whose pull completed,
\* whether or not it found pending operations, has set lastSync to a time
\* not earlier than its start by the time it returns; lastSync never
\* decreases.
C17_LastSyncAdvances ==
  /\ [](\A c \in Slots :
          /\ variant = "services" /\ runs[c].pc = "done"
          /\ runs[c].ret \in {"results", "empty"} /\ runs[c].k = 7
          => meta # NoTime /\ meta >= runs[c].start)
  /\ [][meta' >= meta]_vars

\* C18: when every awaited call of a run eventually returns or fails, every
\* run that set isSyncing ends, on whichever exit path, and isSyncing is
\* false when it has ended, in both sync managers; isSyncing is never true
\* with no run in flight.
C18_FlagReleased ==
  /\ [](isSyncing => Running # {})
  /\ \A c \in Slots : InFlight(c) ~> (~InFlight(c) /\ ~isSyncing)

\* A run has ended on a failure path (rejected, or answered with a failure
\* object) and the flag is down.
C18_Witness ==
  \E c \in Slots :
    /\ runs[c].pc = "done" /\ runs[c].ret \in {"threw", "failure"}
    /\ ~isSyncing /\ Running = {}

\* C19: in both sync managers a syncAll call made while a run is in flight
\* or while navigator.onLine is false returns at once with a result object
\* that marks the call as skipped, the same kind of value in both cases.
C19_SkippedResult ==
  [][SyncCall /\ (isSyncing \/ ~online) => last'.res = "object"]_vars

\* C20: marking is idempotent: a mark of an item that is already synced
\* leaves the stored record as the first mark left it, syncedAt included,
\* and a mark of a key that is not in the queue changes nothing.
C20_MarkIdempotent ==
  [][\A id \in 1..(MaxOps + 1) :
       MarkCall(id) /\ (id \notin QueueIds \/ Item(id).synced) => queue' = queue]_vars

\* A services run that has returned normally (its results object, or the
\* object of the empty-queue path).
SvcReturnedNormally(c) ==
  variant = "services" /\ runs[c].pc = "done" /\ runs[c].ret \in {"results", "empty"}

\* A run starts in the slot of a run that returned normally and left no
\* unsynced operation; every facade call so far was an enqueue that the
\* first run loaded, so nothing was enqueued and the server was not written
\* since the first run ended.
SecondRunStarts(d) ==
  /\ SvcReturnedNormally(d)
  /\ runs'[d].pc = "load"
  /\ runs[d].qmark = nextQid["syncQueue"]
  /\ nOps = Len(queue)
  /\ \A n \in 1..Len(queue) : queue[n].synced

\* C21: with no unsynced operation left, nothing enqueued and the server
\* unchanged, a second services run sends no create, update or delete and
\* leaves books, publishers, transactions and the queue as the first run
\* left them: when it starts each collection already holds what the server
\* holds, which is what its pull writes over it, and a run that loaded no
\* operation makes no replay and marks nothing.
C21_SecondRunChangesNothing ==
  /\ [][\A d \in Slots : SecondRunStarts(d) => db = srv]_vars
  /\ [](\A d \in Slots :
          variant = "services" /\ InFlight(d) /\ runs[d].emptyPath
            => runs[d].pc \notin {"remote", "mark"})

\* A step in which the services engine enqueues an operation.
SvcEnqueues == variant = "services" /\ Len(queue') = Len(queue) + 1

\* C22: queueOperation schedules a drain only when online and not mid-sync
\* at enqueue time, and operations enqueued in quick succession, before the
\* scheduled drain has fired, are coalesced: at most one drain is scheduled
\* at any time.
C22_BurstCoalesced ==
  /\ [][SvcEnqueues /\ timers' # timers => online /\ ~isSyncing]_vars
  /\ [](timers <= 1)

\* A Local Store write that the call performed was rejected: the mirror
\* write after a remote success, or a write of the offline path.
StoreWriteFailed(out) ==
  \/ out.rem = "ok" /\ out.mir # "ok"
  \/ out.loc # "ok"
  \/ out.enq # "ok"

\* C23: in both variants a facade write one of whose Local Store writes was
\* rejected ends with that storage error; it never resolves as a success.
C23_StorageErrorSurfaced ==
  [][\A call \in CallsOn(Stores, Kinds) :
       \A out \in AllWriteOutcomes \cup UtlWriteOutcomes(call) :
         (SvcWrite(call, out) \/ UtlWrite(call, out)) /\ StoreWriteFailed(out)
           => last'.res = "storage"]_vars

\* C24: the remote calls of a utils run follow the creation order of all
\* pending operations across kinds: when a pending transaction has been
\* posted, every unsynced book or publisher operation created before it
\* has been dispatched by the run already.
C24_CreationOrderAcrossKinds ==
  \A c \in Slots :
    variant = "utils" /\ runs[c].pc = "uMarkTx" =>
      LET tx == runs[c].pending[runs[c].i]
      IN \A n \in 1..Len(queue) :
           ~queue[n].synced /\ queue[n].ts < tx.ts => Replays(queue[n].id) > 0

\* The unsynced items of the queue.
Unsynced == {n \in 1..Len(queue) : ~queue[n].synced}

C25_ReadOnly ==
  Status => UNCHANGED <<srvVars, storeVars, engVars, trigVars>>

C25_Values ==
  /\ StatusQueue => last'.status.pendingOperations = Cardinality(Unsynced)
  /\ StatusMeta =>
       /\ last'.status.lastSync = meta
       /\ last'.status.isSyncing = isSyncing
       /\ last'.status.hasPendingChanges <=> last'.status.pendingOperations > 0
       /\ last'.status.pendingOperations = last.status.pendingOperations

\* C25 (amended): getSyncStatus of the services manager is read-only: no
\* step of it changes the queue, the collections, lastSync, isSyncing or
\* the server; pendingOperations is the number of unsynced queue items at
\* the moment the queue is read, hasPendingChanges is true exactly when
\* that number is positive, lastSync is the stored value and isSyncing the
\* flag at the moment the call returns.
C25_StatusReadOnly == [][C25_ReadOnly /\ C25_Values]_vars

\* A status call made during a run has returned after the run ended, with
\* a pending count read before the run marked its operation.
C25_Witness ==
  /\ last.kind = "status" /\ last.res = "done"
  /\ last.status.flagAtCall /\ ~last.status.isSyncing
  /\ last.status.pendingOperations = 1
  /\ Unsynced = {}

\* C25 as stated: the returned isSyncing is the flag at the time of the
\* call and the returned pendingOperations is the number of unsynced items.
C25_AsStated ==
  [][StatusMeta =>
       /\ last'.status.isSyncing = last.status.flagAtCall
       /\ last'.status.pendingOperations = Cardinality(Unsynced)]_vars

\* the request is finally rejected with 401 after its refresh attempt
RejectedAfterAttempt ==
  /\ req.pc # "done" /\ req'.pc = "done"
  /\ req'.retry /\ req'.status = 401

\* C26: a request answered 401 triggers at most one token refresh and at
\* most one retry, and whenever it is finally rejected with 401 after the
\* attempt (the refresh failed or the retried request was answered 401
\* again) both stored tokens are removed.
C26_LogoutOnRepeated401 ==
  /\ [](req.refreshes <= 1 /\ req.retries <= 1)
  /\ [][RejectedAfterAttempt => tokens' = NoTokens]_vars


\* C27: a services facade write whose remote call succeeded adds no
\* operation to the queue, whatever the mirror write into the Local Store
\* does; so what the server has applied is never replayed later.
C27_NoEnqueueAfterRemoteSuccess ==
  [][\A call \in CallsOn(Stores, Kinds), out \in AllWriteOutcomes :
       SvcWrite(call, out) /\ out.rem = "ok" => queue' = queue]_vars

\* C28: lastSync is written only by a syncAll run of which the pull has
\* fetched the three collections and replaced the Local Store with them.
C28_LastSyncOnlyAfterPull ==
  [][variant = "services" /\ meta' # meta
       => \E c \in Slots : runs[c].pc = "meta" /\ runs[c].pulled /\ runs[c].k = 7]_vars

\* the temp record of a queued create is in its collection
TempRecordKept(op, store) ==
  \E r \in store[StoreOf(op.type)] : r.off /\ r.id = TempId(op.ts)

\* C29: when a services run ends, every record created offline whose CREATE
\* operation is still unsynced is still in its Local Store collection:
\* the pull removes no local record whose creation has not reached the
\* server.
C29_PullKeepsUnsyncedCreates ==
  [][\A c \in Slots :
       variant = "services" /\ runs[c].pc # "done" /\ runs'[c].pc = "done"
         => \A n \in 1..Len(queue') :
              ~queue'[n].synced /\ queue'[n].type \in Creates
                => TempRecordKept(queue'[n], db')]_vars

\* a step in which no awaited call of a run fails
NoRunFailure ==
  \A c \in Slots :
    /\ runs'[c].failed <= runs[c].failed
    /\ runs[c].pc # "done" /\ runs'[c].pc = "done" => runs'[c].ret # "threw"

AllSynced == \A n \in 1..Len(queue) : queue[n].synced

\* C30: in the services variant, when from some point on connectivity
\* stays online and no call of a run fails, every queued operation is
\* eventually marked synced by the engine's own triggers (the 'online'
\* event and the enqueue timer), an operation enqueued while online during
\* a run in flight included.
C30_DrainsByOwnTriggers ==
  (<>[]online /\ <>[][NoRunFailure]_vars) => <>[]AllSynced

\* The same for behaviours in which no call of a run ever fails: what
\* remains is an operation enqueued while a run is in flight.
DrainsWhenNothingFails ==
  (<>[]online /\ [](\A c \in Slots : runs[c].failed = 0 /\ runs[c].ret # "threw"))
    => <>[]AllSynced

\* an id made by the client: `temp_...`
IsTempId(id) == id[1] = "t"

\* C31: a services run never sends the server an update or a delete whose
\* book_id is a client-made temporary id: every UPDATE_BOOK and DELETE_BOOK
\* it replays names a server-assigned id.
C31_NoTempIdSentToServer ==
  \A c \in Slots :
    variant = "services" /\ runs[c].pc = "remote" =>
      LET op == runs[c].pending[runs[c].i]
      IN op.type \in {"UPDATE_BOOK", "DELETE_BOOK"} => ~IsTempId(op.key)

\* a create served by the offline path, every Local Store write of which
\* succeeded
OfflineCreate(call, out) ==
  /\ SvcWrite(call, out) \/ UtlWrite(call, out)
  /\ call.kind = "create" /\ out.rem # "ok"
  /\ out.loc = "ok" /\ out.enq = "ok"
  /\ last'.res = "local"

\* C32: in both facades every create made through the offline path gets a
\* temporary id no other record of the collection has, two creates at the
\* same clock reading included: the collection grows by one record and
\* the pending operations by one.
C32_OfflineCreatesDistinct ==
  [][\A call \in CallsOn(Stores, {"create"}) :
       \A out \in AllWriteOutcomes \cup UtlWriteOutcomes(call) :
         OfflineCreate(call, out) =>
           /\ Cardinality(db'[call.store]) = Cardinality(db[call.store]) + 1
           /\ Len(queue') + Len(pendingTx') = Len(queue) + Len(pendingTx) + 1]_vars

\* a getAll of the given facade has just resolved with the server's list
ServerListed(v) ==
  /\ variant = v /\ nOps' = nOps + 1
  /\ last'.kind = "getAll" /\ last'.res = "server"

\* C33: after an online getAll of the services facade with an empty search
\* term has succeeded, the collection it mirrors into equals the set of
\* records the server returned.
C33_MirrorEqualsServerList ==
  [][ServerListed("services") /\ last'.term = NoTerm
       => db'[last'.store] = last'.list]_vars

\* C34: a successful online getAll(searchTerm) of the utils facade with a
\* non-empty term removes no book from the Local Store: every book cached
\* before the call that the answer does not contain is still cached.
C34_SearchKeepsCache ==
  [][ServerListed("utils") /\ last'.store = "books" /\ last'.term # NoTerm
       => \A r \in db["books"] : r \notin last'.list => r \in db'["books"]]_vars

\* a fetch of the pull of run c fails in this step and ends the run
FetchFails(c) ==
  /\ runs[c].pc \in {"fetch", "uFetch"}
  /\ runs'[c].pc = "done" /\ runs'[c].ret \in {"threw", "failure"}

\* the collections the pull of run c has written already, when it is about
\* to fetch
SavedByPull(c) == IF runs[c].pc = "uFetch" THEN runs[c].k - 1 ELSE 0

\* C35: in both sync managers a pull one of whose three fetches fails
\* modifies none of the three collections: when the fetch fails the pull
\* has written nothing.
C35_FailedPullWritesNothing ==
  [][\A c \in Slots : FetchFails(c) => SavedByPull(c) = 0]_vars

\* C36: in the utils manager no automatic syncAll starts after stopAutoSync
\* (by the interval or by an 'online' event), and after any sequence of
\* startAutoSync / stopAutoSync calls that ends with startAutoSync one
\* 'online' event invokes syncAll exactly once.
C36_StopStopsAutoSync ==
  /\ [][(GoOnline \/ IntervalFire) /\ ~autoSync => UNCHANGED engVars]_vars
  /\ [](autoSync => listeners = 1)

\* C37: in syncTransactions of the service worker a pending transaction is
\* deleted from the store exactly when its POST was answered ok, one whose
\* POST failed stays, and the loop goes on with the remaining ones: the
\* store loses a transaction only to an invocation that has posted, and an
\* invocation that has ended has posted every transaction that was
\* pending when it read the store.
C37_EveryPendingPosted ==
  /\ [][Len(swStore') < Len(swStore) => \E c \in Slots : swRuns'[c].posted > swRuns[c].posted]_vars
  /\ [](\A c \in Slots :
          swRuns[c].pc = "done" => swRuns[c].posted = swRuns[c].pendingAtRead)
====
